---- MODULE Spec2Model ----
(***************************************************************************)
(* Booking lifecycle of the coach/athlete marketplace backend              *)
(* (src/app/modules/Booking/Booking.service.ts).                           *)
(*                                                                         *)
(* and slot generation (src/app/modules/Schedule/Schedule.service.ts).     *)
(*                                                                         *)
(* The database is the triple (bookings, slots, availabilities).  Spec     *)
(* runs the booking service one call at a time: a call that throws changes *)
(* nothing and is a stuttering step, a call that succeeds is one step.     *)
(* SpecRace runs createIntoDb in several overlapping requests, one per     *)
(* process of Procs, split at the statements of its transaction.           *)
(* SpecSchedule runs slot generation together with createIntoDb on a       *)
(* database that starts empty.                                             *)
(*                                                                         *)
(* Time is a natural number; a calendar day is DayLen consecutive time     *)
(* points, so Date.setHours(0,0,0,0) is the rounding down to a multiple of *)
(* DayLen.  The start and end of a slot or of an availability window are   *)
(* times of the day of its slotDate, kept in minutes after midnight.       *)
(***************************************************************************)
EXTENDS Integers, Sequences, FiniteSets, TLC

\* ---- bounds -------------------------------------------------------------
MaxBookings == 3
DayLen == 2
MaxDay == 1
MaxHalfHours == 5
MaxAvailabilities == 1
MaxSlots == 4

MaxTime == (MaxDay + 1) * DayLen - 1
Times == 0..MaxTime

\* ---- identities ---------------------------------------------------------
Athletes == {"a1", "a2"}
Coaches == {"c1", "c2"}
Procs == {"p1", "p2"}

ATHLETE == "ATHLETE"
COACH == "COACH"
Actors == [role : {ATHLETE}, id : Athletes] \cup [role : {COACH}, id : Coaches]

\* ---- BookingStatus enum -------------------------------------------------
CONFIRMED == "CONFIRMED"
CANCELLED == "CANCELLED"
FINISHED == "FINISHED"
RESCHEDULE_REQUEST == "RESCHEDULE_REQUEST"
RESCHEDULED_ACCEPTED == "RESCHEDULED_ACCEPTED"
RESCHEDULED_CANCELED == "RESCHEDULED_CANCELED"

\* the status list of the existing-booking queries
ActiveStatuses == {CONFIRMED, RESCHEDULE_REQUEST, RESCHEDULED_ACCEPTED}
TerminalStatuses == {CANCELLED, FINISHED, RESCHEDULED_CANCELED}

\* ---- Date arithmetic ----------------------------------------------------
\* d.setHours(0, 0, 0, 0)
DateOnly(t) == t - (t % DayLen)
MinutesPerDay == 24 * 60
\* the time point of the day that holds minute m of the day
Clock(m) == (m * DayLen) \div MinutesPerDay
\* d.setHours(h, m, s, 0) with the time of day of another Date
SetHours(t, tod) == DateOnly(t) + tod
\* the calendar days, each as the time point of its midnight
Days == {DateOnly(t) : t \in Times}

\* ---- TimeSlot rows ------------------------------------------------------
NoSlot == "none"
SlotIds == {"s1", "s2", "s3"}
SlotIdInputs == SlotIds \cup {NoSlot}
\* the ids in the order in which the database hands them out
SlotIdOrder == <<"s1", "s2", "s3", "s4", "s5", "s6">>

\* the length of a generated slot, in minutes
intervalTime == 60

\* coachId and slotDate are those of the slot's CoachAvailability
InitSlots ==
  [s \in SlotIds |->
     CASE s = "s1" -> [coachId |-> "c1", slotDate |-> 0,
                       startTime |-> 12 * 60,
                       endTime |-> 12 * 60 + intervalTime,
                       status |-> "ACTIVE", isBooked |-> FALSE]
       [] s = "s2" -> [coachId |-> "c1", slotDate |-> DayLen,
                       startTime |-> 12 * 60,
                       endTime |-> 12 * 60 + intervalTime,
                       status |-> "ACTIVE", isBooked |-> FALSE]
       [] OTHER    -> [coachId |-> "c2", slotDate |-> 0, startTime |-> 0,
                       endTime |-> intervalTime,
                       status |-> "INACTIVE", isBooked |-> FALSE]]

\* ---- CoachAvailability rows --------------------------------------------
\* the rows are keyed by the unique pair coachId_slotDate
InitAvailabilities ==
  [k \in {<<InitSlots[s].coachId, InitSlots[s].slotDate>> : s \in SlotIds}
     |-> LET s == CHOOSE t \in SlotIds :
                    <<InitSlots[t].coachId, InitSlots[t].slotDate>> = k
         IN  [startTime |-> InitSlots[s].startTime,
              endTime |-> InitSlots[s].endTime, isActive |-> TRUE]]

\* ---- requests in flight -------------------------------------------------
Null == 0
BookingIdInputs == 1..MaxBookings
Decisions == {RESCHEDULED_ACCEPTED, RESCHEDULED_CANCELED, "OTHER"}

\* a process with no request in flight; result is how its last request ended
Idle(result) ==
  [pc |-> "idle", result |-> result, athleteId |-> "none",
   coachId |-> "none", slot |-> NoSlot, date |-> 0, dirty |-> FALSE,
   booking |-> Null]

VARIABLES bookings, slots, availabilities, slotSeq, now, proc

vars == <<bookings, slots, availabilities, slotSeq, now, proc>>

BookingIds == 1..Len(bookings)

\* rows a transaction has decided to insert but not yet committed count
\* against the bound on the table
PendingInserts ==
  Cardinality({p \in Procs : proc[p].pc \in {"create_insert", "create_slot"}})

Init ==
  /\ bookings = << >>
  /\ slots = InitSlots
  /\ availabilities = InitAvailabilities
  /\ slotSeq = Cardinality(SlotIds)
  /\ now = 0
  /\ proc = [p \in Procs |-> Idle("none")]

\* the clock of the server
Tick ==
  /\ now < MaxTime
  /\ now' = now + 1
  /\ UNCHANGED <<bookings, slots, availabilities, slotSeq, proc>>

\* ---- createIntoDb -------------------------------------------------------
\* tx.booking.findFirst of step 7: a booking of the slot within the day
ExistingBookingCreate(bs, timeSlotId, bookingDateOnly) ==
  \E i \in 1..Len(bs) :
    /\ bs[i].timeSlotId = timeSlotId
    /\ bs[i].bookingDate >= bookingDateOnly
    /\ bs[i].bookingDate < bookingDateOnly + DayLen
    /\ bs[i].status \in ActiveStatuses

\* the checks without step 4, the check of the slot's status
CreateValidateAnyStatus(bs, sl, today, coachId, timeSlotId, bookingDate) ==
  IF timeSlotId \notin DOMAIN sl THEN "NOT_FOUND"
  ELSE IF sl[timeSlotId].coachId # coachId THEN "BAD_REQUEST"
  ELSE IF DateOnly(bookingDate) # DateOnly(sl[timeSlotId].slotDate)
    THEN "BAD_REQUEST"
  ELSE IF DateOnly(bookingDate) < DateOnly(today) THEN "BAD_REQUEST"
  ELSE IF ExistingBookingCreate(bs, timeSlotId, DateOnly(bookingDate))
    THEN "CONFLICT"
  ELSE "ok"

\* steps 2 to 7 of createIntoDb: the error thrown, or "ok"
CreateValidate(bs, sl, today, coachId, timeSlotId, bookingDate) ==
  IF timeSlotId \notin DOMAIN sl THEN "NOT_FOUND"
  ELSE IF sl[timeSlotId].coachId # coachId THEN "BAD_REQUEST"
  ELSE IF sl[timeSlotId].status # "ACTIVE" THEN "BAD_REQUEST"
  ELSE IF DateOnly(bookingDate) # DateOnly(sl[timeSlotId].slotDate)
    THEN "BAD_REQUEST"
  ELSE IF DateOnly(bookingDate) < DateOnly(today) THEN "BAD_REQUEST"
  ELSE IF ExistingBookingCreate(bs, timeSlotId, DateOnly(bookingDate))
    THEN "CONFLICT"
  ELSE "ok"

\* step 9: the row handed to tx.booking.create
CreateRow(sl, athleteId, coachId, timeSlotId, bookingDate) ==
  [athleteId |-> athleteId, coachId |-> coachId, timeSlotId |-> timeSlotId,
   bookingDate |-> SetHours(bookingDate, Clock(sl[timeSlotId].startTime)),
   status |-> CONFIRMED, rescheduleFromId |-> Null]

\* step 10: tx.timeSlot.update({ isBooked: true })
MarkBooked(sl, timeSlotId) ==
  [sl EXCEPT ![timeSlotId].isBooked = TRUE]

\* a commit that writes slot s invalidates the open transactions on s
Invalidate(pr, p, s) ==
  [q \in Procs |->
     IF q # p /\ pr[q].pc \in {"create_insert", "create_slot"}
              /\ pr[q].slot = s
       THEN [pr[q] EXCEPT !.dirty = TRUE]
       ELSE pr[q]]

\* the Notifier: createNotification returns, or it fails and its promise
\* is rejected
NotifyOutcomes == {"sent", "failed"}

\* steps 9 and 10 and the awaited createNotification, all inside the
\* callback of prisma.$transaction: an error thrown there rolls the writes
\* back and is thrown by createIntoDb
CreateTx(bs, sl, athleteId, coachId, timeSlotId, bookingDate, notified) ==
  IF notified = "failed"
  THEN [bookings |-> bs, slots |-> sl, result |-> "ERROR"]
  ELSE [bookings |-> Append(bs, CreateRow(sl, athleteId, coachId,
                                          timeSlotId, bookingDate)),
        slots |-> MarkBooked(sl, timeSlotId), result |-> "ok"]

\* the whole call, once its checks have passed
CreateBooking ==
  /\ Len(bookings) < MaxBookings
  /\ \E a \in Athletes, c \in Coaches, s \in SlotIdInputs, d \in Times,
        notified \in NotifyOutcomes :
       /\ CreateValidate(bookings, slots, now, c, s, d) = "ok"
       /\ bookings' = CreateTx(bookings, slots, a, c, s, d, notified).bookings
       /\ slots' = CreateTx(bookings, slots, a, c, s, d, notified).slots
  /\ UNCHANGED <<availabilities, slotSeq, now, proc>>

\* the transaction starts: steps 1 to 8, all of them reads
CreateCheck(p) ==
  /\ proc[p].pc = "idle"
  /\ Len(bookings) + PendingInserts < MaxBookings
  /\ \E a \in Athletes, c \in Coaches, s \in SlotIdInputs, d \in Times :
       LET r == CreateValidate(bookings, slots, now, c, s, d) IN
       proc' = [proc EXCEPT ![p] =
                  IF r = "ok"
                    THEN [Idle("none") EXCEPT
                            !.pc = "create_insert", !.athleteId = a,
                            !.coachId = c, !.slot = s, !.date = d]
                    ELSE Idle(r)]
  /\ UNCHANGED <<bookings, slots, availabilities, slotSeq, now>>

\* tx.booking.create: the row is written inside the open transaction
CreateInsert(p) ==
  /\ proc[p].pc = "create_insert"
  /\ proc' = [proc EXCEPT ![p].pc = "create_slot"]
  /\ UNCHANGED <<bookings, slots, availabilities, slotSeq, now>>

\* tx.timeSlot.update, the notification sent, and the commit of the
\* transaction
CreateCommit(p) ==
  /\ proc[p].pc = "create_slot"
  /\ bookings' = Append(bookings,
                        CreateRow(slots, proc[p].athleteId, proc[p].coachId,
                                  proc[p].slot, proc[p].date))
  /\ slots' = MarkBooked(slots, proc[p].slot)
  /\ proc' = [Invalidate(proc, p, proc[p].slot) EXCEPT ![p] = Idle("ok")]
  /\ UNCHANGED <<availabilities, slotSeq, now>>

\* the slot row was written by a transaction that committed meanwhile: a
\* database that detects write conflicts aborts this one, rolling it back
CreateAbort(p) ==
  /\ proc[p].pc = "create_slot"
  /\ proc[p].dirty
  /\ proc' = [proc EXCEPT ![p] = Idle("TX_CONFLICT")]
  /\ UNCHANGED <<bookings, slots, availabilities, slotSeq, now>>

\* ---- authorization of the booking operations ---------------------------
\* isAthlete || isCoach of cancelBooking, requestReschedule and
\* respondToReschedule; the user row is the athlete or the coach with the
\* caller's email, according to the caller's role
IsParty(b, actor) ==
  \/ actor.role = ATHLETE /\ b.athleteId = actor.id
  \/ actor.role = COACH /\ b.coachId = actor.id

\* ---- cancelBooking ------------------------------------------------------
\* the reads and the checks that precede the transaction
CancelValidate(bs, actor, bookingId) ==
  IF bookingId \notin 1..Len(bs) THEN "NOT_FOUND"
  ELSE IF ~IsParty(bs[bookingId], actor) THEN "FORBIDDEN"
  ELSE IF bs[bookingId].status = CANCELLED THEN "BAD_REQUEST"
  ELSE IF bs[bookingId].status = FINISHED THEN "BAD_REQUEST"
  ELSE "ok"

\* tx.booking.update({ status: CANCELLED })
CancelRow(bs, bookingId) ==
  [bs EXCEPT ![bookingId].status = CANCELLED]

\* the transaction without the update of the slot
ReleaseSlotForgotten(sl, timeSlotId) == sl

\* tx.timeSlot.update({ isBooked: false }) on the slot of the booking
ReleaseSlot(sl, timeSlotId) ==
  IF timeSlotId \in DOMAIN sl
    THEN [sl EXCEPT ![timeSlotId].isBooked = FALSE]
    ELSE sl

CancelBooking ==
  /\ \E actor \in Actors, b \in BookingIdInputs :
       /\ CancelValidate(bookings, actor, b) = "ok"
       /\ bookings' = CancelRow(bookings, b)
       /\ slots' = ReleaseSlot(slots, bookings[b].timeSlotId)
  /\ UNCHANGED <<availabilities, slotSeq, now, proc>>

\* ---- finishBooking ------------------------------------------------------
\* the checks without the comparison of bookingDate with the current date
FinishValidateAnyDate(bs, currentDate, actor, bookingId) ==
  IF actor.role # COACH THEN "FORBIDDEN"
  ELSE IF bookingId \notin 1..Len(bs) THEN "NOT_FOUND"
  ELSE IF bs[bookingId].coachId # actor.id THEN "FORBIDDEN"
  ELSE IF bs[bookingId].status = FINISHED THEN "BAD_REQUEST"
  ELSE IF bs[bookingId].status = CANCELLED THEN "BAD_REQUEST"
  ELSE "ok"

\* the reads and the checks that precede the update
FinishValidate(bs, currentDate, actor, bookingId) ==
  IF actor.role # COACH THEN "FORBIDDEN"
  ELSE IF bookingId \notin 1..Len(bs) THEN "NOT_FOUND"
  ELSE IF bs[bookingId].coachId # actor.id THEN "FORBIDDEN"
  ELSE IF bs[bookingId].status = FINISHED THEN "BAD_REQUEST"
  ELSE IF bs[bookingId].status = CANCELLED THEN "BAD_REQUEST"
  ELSE IF bs[bookingId].bookingDate > currentDate THEN "BAD_REQUEST"
  ELSE "ok"

\* prisma.booking.update({ status: FINISHED })
FinishRow(bs, bookingId) ==
  [bs EXCEPT ![bookingId].status = FINISHED]

FinishBooking ==
  /\ \E actor \in Actors, b \in BookingIdInputs :
       /\ FinishValidate(bookings, now, actor, b) = "ok"
       /\ bookings' = FinishRow(bookings, b)
  /\ UNCHANGED <<slots, availabilities, slotSeq, now, proc>>

\* ---- cancelBooking and finishBooking in overlapping requests ------------
\* a process makes one call; it ends in pc "done" with the call's result
Done(result, bookingId) ==
  [Idle(result) EXCEPT !.pc = "done", !.booking = bookingId]

\* cancelBooking up to its checks: the booking is read outside the
\* transaction
CancelRead(p) ==
  /\ proc[p].pc = "idle"
  /\ \E actor \in Actors, b \in BookingIds :
       LET r == CancelValidate(bookings, actor, b) IN
       proc' = [proc EXCEPT ![p] =
                  IF r = "ok"
                    THEN [Idle("none") EXCEPT
                            !.pc = "cancel_tx", !.booking = b,
                            !.slot = bookings[b].timeSlotId]
                    ELSE Done(r, b)]
  /\ UNCHANGED <<bookings, slots, availabilities, slotSeq, now>>

\* the transaction of cancelBooking: it updates the booking and the slot
\* that was read, and reads nothing
CancelWrite(p) ==
  /\ proc[p].pc = "cancel_tx"
  /\ bookings' = CancelRow(bookings, proc[p].booking)
  /\ slots' = ReleaseSlot(slots, proc[p].slot)
  /\ proc' = [proc EXCEPT ![p] = Done("ok", proc[p].booking)]
  /\ UNCHANGED <<availabilities, slotSeq, now>>

\* finishBooking up to its checks
FinishRead(p) ==
  /\ proc[p].pc = "idle"
  /\ \E actor \in Actors, b \in BookingIds :
       LET r == FinishValidate(bookings, now, actor, b) IN
       proc' = [proc EXCEPT ![p] =
                  IF r = "ok"
                    THEN [Idle("none") EXCEPT
                            !.pc = "finish_update", !.booking = b]
                    ELSE Done(r, b)]
  /\ UNCHANGED <<bookings, slots, availabilities, slotSeq, now>>

\* prisma.booking.update({ status: FINISHED }) of finishBooking
FinishWrite(p) ==
  /\ proc[p].pc = "finish_update"
  /\ bookings' = FinishRow(bookings, proc[p].booking)
  /\ proc' = [proc EXCEPT ![p] = Done("ok", proc[p].booking)]
  /\ UNCHANGED <<slots, availabilities, slotSeq, now>>

\* ---- requestReschedule --------------------------------------------------
\* prisma.booking.findFirst on the target: bookingDate equal to the
\* requested Date
ExistingBookingReschedule(bs, newTimeSlotId, newBookingDate) ==
  \E i \in 1..Len(bs) :
    /\ bs[i].timeSlotId = newTimeSlotId
    /\ bs[i].bookingDate = newBookingDate
    /\ bs[i].status \in ActiveStatuses

RequestValidate(bs, sl, actor, bookingId, newTimeSlotId, newBookingDate) ==
  IF bookingId \notin 1..Len(bs) THEN "NOT_FOUND"
  ELSE IF ~IsParty(bs[bookingId], actor) THEN "FORBIDDEN"
  ELSE IF bs[bookingId].status = RESCHEDULE_REQUEST THEN "BAD_REQUEST"
  ELSE IF newTimeSlotId \notin DOMAIN sl THEN "NOT_FOUND"
  ELSE IF sl[newTimeSlotId].coachId # bs[bookingId].coachId
    THEN "BAD_REQUEST"
  ELSE IF DateOnly(sl[newTimeSlotId].slotDate) # DateOnly(newBookingDate)
    THEN "BAD_REQUEST"
  ELSE IF ExistingBookingReschedule(bs, newTimeSlotId, newBookingDate)
    THEN "BAD_REQUEST"
  ELSE "ok"

\* the create without the link to the original booking
RescheduleRowUnlinked(athleteId, coachId, bookingId, newTimeSlotId, newBookingDate) ==
  [athleteId |-> athleteId, coachId |-> coachId,
   timeSlotId |-> newTimeSlotId, bookingDate |-> newBookingDate,
   status |-> RESCHEDULE_REQUEST, rescheduleFromId |-> Null]

\* the row handed to tx.booking.create
RescheduleRow(athleteId, coachId, bookingId, newTimeSlotId, newBookingDate) ==
  [athleteId |-> athleteId, coachId |-> coachId,
   timeSlotId |-> newTimeSlotId, bookingDate |-> newBookingDate,
   status |-> RESCHEDULE_REQUEST, rescheduleFromId |-> bookingId]

RequestReschedule ==
  /\ Len(bookings) < MaxBookings
  /\ \E actor \in Actors, b \in BookingIdInputs, s \in SlotIdInputs,
        d \in Times :
       /\ RequestValidate(bookings, slots, actor, b, s, d) = "ok"
       /\ bookings' = Append(bookings,
                             RescheduleRow(bookings[b].athleteId,
                                           bookings[b].coachId, b, s, d))
  /\ UNCHANGED <<slots, availabilities, slotSeq, now, proc>>

\* ---- respondToReschedule ------------------------------------------------
\* the checks without the check of the proposal's status
RespondValidateAnyStatus(bs, actor, requestId, decision) ==
  IF requestId \notin 1..Len(bs) THEN "NOT_FOUND"
  ELSE IF ~IsParty(bs[requestId], actor) THEN "FORBIDDEN"
  ELSE IF bs[requestId].rescheduleFromId \notin 1..Len(bs)
    THEN "BAD_REQUEST"
  ELSE IF decision \notin {RESCHEDULED_ACCEPTED, RESCHEDULED_CANCELED}
    THEN "BAD_REQUEST"
  ELSE "ok"

\* payload.rescheduleFromId is the id of the proposal itself
RespondValidate(bs, actor, requestId, decision) ==
  IF requestId \notin 1..Len(bs) THEN "NOT_FOUND"
  ELSE IF bs[requestId].status # RESCHEDULE_REQUEST THEN "BAD_REQUEST"
  ELSE IF ~IsParty(bs[requestId], actor) THEN "FORBIDDEN"
  ELSE IF bs[requestId].rescheduleFromId \notin 1..Len(bs)
    THEN "BAD_REQUEST"
  ELSE IF decision \notin {RESCHEDULED_ACCEPTED, RESCHEDULED_CANCELED}
    THEN "BAD_REQUEST"
  ELSE "ok"

\* the accept branch without the update of the original booking
AcceptTxProposalOnly(bs, requestId, originalId) ==
  [bs EXCEPT ![requestId].status = RESCHEDULED_ACCEPTED]

\* the transaction of the accept branch: the original is cancelled, the
\* proposal accepted
AcceptTx(bs, requestId, originalId) ==
  [bs EXCEPT ![originalId].status = CANCELLED,
             ![requestId].status = RESCHEDULED_ACCEPTED]

\* the reject branch cancelling the original booking as well
RejectTxCancelOriginal(bs, requestId) ==
  [bs EXCEPT ![requestId].status = RESCHEDULED_CANCELED,
             ![bs[requestId].rescheduleFromId].status = CANCELLED]

\* the transaction of the reject branch
RejectTx(bs, requestId) ==
  [bs EXCEPT ![requestId].status = RESCHEDULED_CANCELED]

RespondToReschedule ==
  /\ \E actor \in Actors, b \in BookingIdInputs, d \in Decisions :
       /\ RespondValidate(bookings, actor, b, d) = "ok"
       /\ bookings' =
            IF d = RESCHEDULED_ACCEPTED
              THEN AcceptTx(bookings, b, bookings[b].rescheduleFromId)
              ELSE RejectTx(bookings, b)
  /\ UNCHANGED <<slots, availabilities, slotSeq, now, proc>>

\* ---- generateSlots (createIntoDb of the Schedule service) ---------------
\* slotDate of the request is a date ("2024-02-20"), one of Days; startTime
\* and endTime, "HH:MM", are minutes of the day
WindowStarts == {0, 30}
WindowEnds == {30 * k : k \in 0..MaxHalfHours}

\* the rows of the table
NoRows == [k \in {} |-> Null]

\* prisma.coachAvailability.upsert: the window of (coachId, slotDate) is
\* replaced or the row is created
UpsertAvailability(av, coachId, slotDate, startDateTime, endDateTime) ==
  [k \in DOMAIN av \cup {<<coachId, slotDate>>} |->
     IF k = <<coachId, slotDate>>
     THEN [startTime |-> startDateTime, endTime |-> endDateTime,
           isActive |-> TRUE]
     ELSE av[k]]

\* the loop with a trailing partial slot cut at the end of the window
RECURSIVE SchedulesTruncated(_, _)
SchedulesTruncated(currentTime, endDateTime) ==
  IF currentTime < endDateTime
  THEN <<[startTime |-> currentTime,
          endTime |-> IF currentTime + intervalTime > endDateTime
                      THEN endDateTime ELSE currentTime + intervalTime]>>
       \o SchedulesTruncated(currentTime + intervalTime, endDateTime)
  ELSE << >>

\* the loop that fills schedules: it stops at the end of the window and
\* breaks at a slot that would exceed it
RECURSIVE Schedules(_, _)
Schedules(currentTime, endDateTime) ==
  IF currentTime < endDateTime
     /\ ~(currentTime + intervalTime > endDateTime)
  THEN <<[startTime |-> currentTime,
          endTime |-> currentTime + intervalTime]>>
       \o Schedules(currentTime + intervalTime, endDateTime)
  ELSE << >>

\* no row deleted
DeleteSlotsSkipped(sl, coachId, slotDate) == sl

\* prisma.timeSlot.deleteMany({ where: { availabilityId } }): every slot of
\* the availability, booked or not; the rows of bookings are not touched
DeleteSlots(sl, coachId, slotDate) ==
  [s \in {t \in DOMAIN sl :
            ~(sl[t].coachId = coachId /\ sl[t].slotDate = slotDate)}
     |-> sl[s]]

\* prisma.timeSlot.create for each element of schedules; seq ids have been
\* handed out before
CreateSlots(sl, seq, coachId, slotDate, schedules) ==
  LET new == {SlotIdOrder[seq + i] : i \in 1..Len(schedules)}
      Index(s) == CHOOSE i \in 1..Len(schedules) : SlotIdOrder[seq + i] = s
  IN  [s \in DOMAIN sl \cup new |->
         IF s \in new
         THEN [coachId |-> coachId, slotDate |-> slotDate,
               startTime |-> schedules[Index(s)].startTime,
               endTime |-> schedules[Index(s)].endTime,
               status |-> "ACTIVE", isBooked |-> FALSE]
         ELSE sl[s]]

GenerateSlots ==
  \E coachId \in Coaches, slotDate \in Days,
     startTime \in WindowStarts, endTime \in WindowEnds :
    LET schedules == Schedules(startTime, endTime) IN
    /\ \/ <<coachId, slotDate>> \in DOMAIN availabilities
       \/ Cardinality(DOMAIN availabilities) < MaxAvailabilities
    /\ slotSeq + Len(schedules) <= MaxSlots
    /\ availabilities' = UpsertAvailability(availabilities, coachId,
                                            slotDate, startTime, endTime)
    /\ slots' = CreateSlots(DeleteSlots(slots, coachId, slotDate), slotSeq,
                            coachId, slotDate, schedules)
    /\ slotSeq' = slotSeq + Len(schedules)
    /\ UNCHANGED <<bookings, now, proc>>

\* ---- addNewSlot ---------------------------------------------------------
\* startTime and endTime of the request, minutes of the day
SlotTimes == {30 * k : k \in 0..MaxHalfHours}
\* every id the database can hand out
AllSlotIds == {SlotIdOrder[i] : i \in 1..Len(SlotIdOrder)}

\* the test with the comparisons at the far boundaries not strict
OverlapsTouching(startDateTime, endDateTime, existingStart, existingEnd) ==
  \/ startDateTime >= existingStart /\ startDateTime <= existingEnd
  \/ endDateTime >= existingStart /\ endDateTime <= existingEnd
  \/ startDateTime <= existingStart /\ endDateTime >= existingEnd

\* the three cases of the overlap test
Overlaps(startDateTime, endDateTime, existingStart, existingEnd) ==
  \/ startDateTime >= existingStart /\ startDateTime < existingEnd
  \/ endDateTime > existingStart /\ endDateTime <= existingEnd
  \/ startDateTime <= existingStart /\ endDateTime >= existingEnd

\* availability.timeSlots: the slots of the availability in the order of
\* their creation
TimeSlotsOf(sl, coachId, slotDate) ==
  SelectSeq(SlotIdOrder,
            LAMBDA s : /\ s \in DOMAIN sl
                       /\ sl[s].coachId = coachId
                       /\ sl[s].slotDate = slotDate)

\* timeSlots.find with the last match instead of the first
ConflictingSlotLast(sl, coachId, slotDate, startDateTime, endDateTime) ==
  LET hits == SelectSeq(TimeSlotsOf(sl, coachId, slotDate),
                        LAMBDA s : Overlaps(startDateTime, endDateTime,
                                            sl[s].startTime, sl[s].endTime))
  IN  IF hits = << >> THEN NoSlot ELSE hits[Len(hits)]

\* availability.timeSlots.find(...): the first slot that overlaps, NoSlot
\* when timeSlots.some(...) is false
ConflictingSlot(sl, coachId, slotDate, startDateTime, endDateTime) ==
  LET hits == SelectSeq(TimeSlotsOf(sl, coachId, slotDate),
                        LAMBDA s : Overlaps(startDateTime, endDateTime,
                                            sl[s].startTime, sl[s].endTime))
  IN  IF hits = << >> THEN NoSlot ELSE Head(hits)

\* the outcome of the checks: the Error thrown, the { success: false }
\* answer, or "ok"
AddValidate(sl, coachId, slotDate, startDateTime, endDateTime) ==
  IF endDateTime <= startDateTime THEN "ERROR"
  ELSE IF ConflictingSlot(sl, coachId, slotDate, startDateTime,
                          endDateTime) # NoSlot
    THEN "CONFLICT"
  ELSE "ok"

\* findUnique, and prisma.coachAvailability.create when there is no row
FindOrCreateAvailability(av, coachId, slotDate, startDateTime, endDateTime) ==
  IF <<coachId, slotDate>> \in DOMAIN av THEN av
  ELSE [k \in DOMAIN av \cup {<<coachId, slotDate>>} |->
          IF k = <<coachId, slotDate>>
          THEN [startTime |-> startDateTime, endTime |-> endDateTime,
                isActive |-> TRUE]
          ELSE av[k]]

AddNewSlot ==
  \E coachId \in Coaches, slotDate \in Days,
     startTime \in SlotTimes, endTime \in SlotTimes :
    /\ AddValidate(slots, coachId, slotDate, startTime, endTime) = "ok"
    /\ \/ <<coachId, slotDate>> \in DOMAIN availabilities
       \/ Cardinality(DOMAIN availabilities) < MaxAvailabilities
    /\ slotSeq < MaxSlots
    /\ availabilities' = FindOrCreateAvailability(availabilities, coachId,
                                                  slotDate, startTime,
                                                  endTime)
    /\ slots' = CreateSlots(slots, slotSeq, coachId, slotDate,
                            <<[startTime |-> startTime,
                               endTime |-> endTime]>>)
    /\ slotSeq' = slotSeq + 1
    /\ UNCHANGED <<bookings, now, proc>>

\* ---- toggleSlotStatus ---------------------------------------------------
\* the checks without the check of a booked ACTIVE slot
ToggleValidateAnyBooked(sl, coachId, slotId) ==
  IF slotId \notin DOMAIN sl THEN "NOT_FOUND"
  ELSE IF sl[slotId].coachId # coachId THEN "UNAUTHORIZED"
  ELSE "ok"

\* the Error thrown, or "ok"
ToggleValidate(sl, coachId, slotId) ==
  IF slotId \notin DOMAIN sl THEN "NOT_FOUND"
  ELSE IF sl[slotId].coachId # coachId THEN "UNAUTHORIZED"
  ELSE IF sl[slotId].isBooked /\ sl[slotId].status = "ACTIVE" THEN "BOOKED"
  ELSE "ok"

\* the update that always deactivates
ToggleRowDeactivate(sl, slotId) ==
  [sl EXCEPT ![slotId].status = "INACTIVE"]

\* prisma.timeSlot.update({ status: newStatus })
ToggleRow(sl, slotId) ==
  [sl EXCEPT ![slotId].status = IF @ = "ACTIVE" THEN "INACTIVE" ELSE "ACTIVE"]

ToggleSlotStatus ==
  /\ \E coachId \in Coaches, slotId \in AllSlotIds \cup {NoSlot} :
       /\ ToggleValidate(slots, coachId, slotId) = "ok"
       /\ slots' = ToggleRow(slots, slotId)
  /\ UNCHANGED <<bookings, availabilities, slotSeq, now, proc>>

\* ---- the system ---------------------------------------------------------
\* one call at a time
Next ==
  \/ Tick
  \/ CreateBooking
  \/ CancelBooking
  \/ FinishBooking
  \/ RequestReschedule
  \/ RespondToReschedule

Spec == Init /\ [][Next]_vars

\* overlapping createIntoDb requests
NextRace ==
  \/ Tick
  \/ \E p \in Procs : CreateCheck(p)
  \/ \E p \in Procs : CreateInsert(p)
  \/ \E p \in Procs : CreateCommit(p)
  \/ \E p \in Procs : CreateAbort(p)

SpecRace == Init /\ [][NextRace]_vars

\* overlapping cancelBooking and finishBooking requests on bookings made
\* before
NextOverlap ==
  \/ Tick
  \/ CreateBooking
  \/ \E p \in Procs : CancelRead(p)
  \/ \E p \in Procs : CancelWrite(p)
  \/ \E p \in Procs : FinishRead(p)
  \/ \E p \in Procs : FinishWrite(p)

SpecOverlap == Init /\ [][NextOverlap]_vars

\* slot generation and booking on a database without rows
InitSchedule ==
  /\ bookings = << >>
  /\ slots = NoRows
  /\ availabilities = NoRows
  /\ slotSeq = 0
  /\ now = 0
  /\ proc = [p \in Procs |-> Idle("none")]

NextSchedule ==
  \/ GenerateSlots
  \/ CreateBooking

SpecSchedule == InitSchedule /\ [][NextSchedule]_vars

\* slots added one at a time
NextAdd ==
  AddNewSlot

SpecAdd == InitSchedule /\ [][NextAdd]_vars

\* the slots of a coach's day, generated or added one at a time
NextSlots ==
  \/ GenerateSlots
  \/ AddNewSlot

SpecSlots == InitSchedule /\ [][NextSlots]_vars

\* bookings on slots that their coaches switch on and off
NextToggle ==
  \/ CreateBooking
  \/ CancelBooking
  \/ RequestReschedule
  \/ ToggleSlotStatus

SpecToggle == Init /\ [][NextToggle]_vars

\* ---- vocabulary of the properties --------------------------------------
Active(b) == b.status \in ActiveStatuses

\* booking i holds slot s on the calendar day that starts at day
Holds(bs, i, s, day) ==
  /\ Active(bs[i])
  /\ bs[i].timeSlotId = s
  /\ DateOnly(bs[i].bookingDate) = day

\* C1: double-booking guard: for every slot and calendar day at most one
\* booking in CONFIRMED, RESCHEDULE_REQUEST or RESCHEDULED_ACCEPTED status
\* references that slot on that day.
C1_DoubleBookingGuard ==
  \A s \in SlotIds, day \in Days :
    \A i, j \in BookingIds :
      Holds(bookings, i, s, day) /\ Holds(bookings, j, s, day) => i = j

\* C2: of two overlapping createIntoDb requests for the same slot and day
\* exactly one returns a booking and the other fails with Conflict: two
\* CONFIRMED bookings of one slot and day are never both committed, and a
\* request that loses the race does not end in any other way than Conflict.
C2_ExactlyOneCreateWins ==
  /\ \A i, j \in BookingIds :
       /\ bookings[i].status = CONFIRMED
       /\ bookings[j].status = CONFIRMED
       /\ bookings[i].timeSlotId = bookings[j].timeSlotId
       /\ DateOnly(bookings[i].bookingDate) = DateOnly(bookings[j].bookingDate)
       => i = j
  /\ \A p \in Procs : proc[p].result \in {"none", "ok", "NOT_FOUND",
                                           "BAD_REQUEST", "CONFLICT"}

\* C3: a slot's isBooked flag is true whenever some booking in CONFIRMED,
\* RESCHEDULE_REQUEST or RESCHEDULED_ACCEPTED status references the slot,
\* the target slot of a reschedule proposal included.
C3_ActiveBookingImpliesIsBooked ==
  \A i \in BookingIds :
    Active(bookings[i]) /\ bookings[i].timeSlotId \in DOMAIN slots
      => slots[bookings[i].timeSlotId].isBooked

\* C4: no slot is marked isBooked while no live booking (CONFIRMED,
\* RESCHEDULE_REQUEST, RESCHEDULED_ACCEPTED) references it; in particular
\* the slot of an original booking cancelled by an accepted reschedule is
\* released.
C4_IsBookedImpliesLiveBooking ==
  \A s \in DOMAIN slots :
    slots[s].isBooked =>
      \E i \in BookingIds : Active(bookings[i]) /\ bookings[i].timeSlotId = s

\* the booking a proposal proposes to replace
Original(b) == bookings[b].rescheduleFromId

C5_AcceptResult ==
  \A actor \in Actors, b \in BookingIdInputs :
    RespondValidate(bookings, actor, b, RESCHEDULED_ACCEPTED) = "ok" =>
      LET bs == AcceptTx(bookings, b, Original(b)) IN
        /\ bs[b].status = RESCHEDULED_ACCEPTED
        /\ bs[Original(b)].status = CANCELLED

C5_AcceptedImpliesOriginalCancelled ==
  \A b \in BookingIds :
    bookings[b].status = RESCHEDULED_ACCEPTED =>
      /\ Original(b) \in BookingIds
      /\ bookings[Original(b)].status = CANCELLED

C5_AcceptStep ==
  \A b \in BookingIds :
    /\ bookings[b].status = RESCHEDULE_REQUEST
    /\ bookings'[b].status = RESCHEDULED_ACCEPTED
    => bookings' = [bookings EXCEPT ![Original(b)].status = CANCELLED,
                                    ![b].status = RESCHEDULED_ACCEPTED]

\* C5: accepting a proposal B2 of B1 results in B2 RESCHEDULED_ACCEPTED and
\* B1 CANCELLED, both in the same step: no state has an accepted proposal
\* whose original is not cancelled, and the step that accepts the proposal
\* is the step that cancels the original.
C5_AcceptAtomic ==
  /\ [](C5_AcceptResult /\ C5_AcceptedImpliesOriginalCancelled)
  /\ [][C5_AcceptStep]_vars

C5_Witness ==
  \E b \in BookingIds :
    /\ bookings[b].status = RESCHEDULED_ACCEPTED
    /\ bookings[Original(b)].status = CANCELLED
    /\ bookings[Original(b)].timeSlotId # bookings[b].timeSlotId

C6_RejectResult ==
  \A actor \in Actors, b \in BookingIdInputs :
    RespondValidate(bookings, actor, b, RESCHEDULED_CANCELED) = "ok" =>
      RejectTx(bookings, b)[b].status = RESCHEDULED_CANCELED

C6_RejectStep ==
  \A b \in BookingIds :
    /\ bookings[b].status = RESCHEDULE_REQUEST
    /\ bookings'[b].status = RESCHEDULED_CANCELED
    => /\ Len(bookings') = Len(bookings)
       /\ \A i \in BookingIds : i # b => bookings'[i] = bookings[i]
       /\ bookings'[b] = [bookings[b] EXCEPT !.status = RESCHEDULED_CANCELED]
       /\ slots' = slots

\* C6: rejecting a proposal B2 of B1 sets B2 to RESCHEDULED_CANCELED and
\* changes nothing else: B1 keeps its status and every other field, every
\* other booking and every slot is unchanged.
C6_RejectFrame ==
  /\ []C6_RejectResult
  /\ [][C6_RejectStep]_vars

C6_Witness ==
  \E b \in BookingIds :
    /\ bookings[b].status = RESCHEDULED_CANCELED
    /\ bookings[Original(b)].status = CONFIRMED
    /\ slots[bookings[Original(b)].timeSlotId].isBooked

C7_RequestResult ==
  \A actor \in Actors, b \in BookingIdInputs, s \in SlotIdInputs, d \in Times :
    RequestValidate(bookings, slots, actor, b, s, d) = "ok" =>
      LET row == RescheduleRow(bookings[b].athleteId, bookings[b].coachId,
                               b, s, d) IN
        row.status = RESCHEDULE_REQUEST /\ row.rescheduleFromId = b

C7_PendingHasOriginal ==
  \A b \in BookingIds :
    bookings[b].status = RESCHEDULE_REQUEST =>
      /\ Original(b) # Null
      /\ Original(b) \in BookingIds
      /\ Original(b) # b

C7_RequestStep ==
  /\ Len(bookings') > Len(bookings)
  /\ bookings'[Len(bookings')].status = RESCHEDULE_REQUEST
  => /\ Len(bookings') = Len(bookings) + 1
     /\ bookings'[Len(bookings')].rescheduleFromId \in BookingIds
     /\ \A i \in BookingIds : bookings'[i] = bookings[i]
     /\ slots' = slots

\* C7: a successful requestReschedule on B1 inserts exactly one booking, in
\* RESCHEDULE_REQUEST status with rescheduleFromId = B1, and leaves B1 as it
\* was; every booking in RESCHEDULE_REQUEST status has a rescheduleFromId
\* that refers to an existing booking.
C7_RequestInsertsLinkedProposal ==
  /\ [](C7_RequestResult /\ C7_PendingHasOriginal)
  /\ [][C7_RequestStep]_vars

C7_Witness ==
  \E b \in BookingIds :
    /\ bookings[b].status = RESCHEDULE_REQUEST
    /\ Original(b) \in BookingIds
    /\ bookings[Original(b)].status = CONFIRMED

\* C8: one outstanding reschedule request at a time: requestReschedule on
\* a booking fails whenever a RESCHEDULE_REQUEST booking already points at
\* it, so no booking has two pending proposals pointing at it.
C8_OnePendingRequest ==
  /\ \A i, j \in BookingIds :
       /\ bookings[i].status = RESCHEDULE_REQUEST
       /\ bookings[j].status = RESCHEDULE_REQUEST
       /\ Original(i) = Original(j)
       => i = j
  /\ \A actor \in Actors, b \in BookingIds, s \in SlotIdInputs, d \in Times :
       (\E i \in BookingIds : /\ bookings[i].status = RESCHEDULE_REQUEST
                              /\ Original(i) = b)
         => RequestValidate(bookings, slots, actor, b, s, d) # "ok"

\* C9: requestReschedule fails whenever the target slot is already held on
\* the day of newBookingDate by a booking in CONFIRMED, RESCHEDULE_REQUEST
\* or RESCHEDULED_ACCEPTED status, whatever time of day that booking stores.
C9_RescheduleTargetFree ==
  \A actor \in Actors, b \in BookingIds, s \in SlotIds, d \in Times :
    (\E i \in BookingIds : Holds(bookings, i, s, DateOnly(d)))
      => RequestValidate(bookings, slots, actor, b, s, d) # "ok"

\* C10: terminal statuses are absorbing and no booking is deleted: a
\* booking that is CANCELLED, FINISHED or RESCHEDULED_CANCELED keeps that
\* status in every later state.
C10_TerminalAbsorbing ==
  [][/\ Len(bookings') >= Len(bookings)
     /\ \A b \in BookingIds :
          bookings[b].status \in TerminalStatuses
            => bookings'[b].status = bookings[b].status]_vars

\* a step of cancelBooking on booking b: b becomes CANCELLED and no
\* proposal is accepted in the same step
CancelStepOn(b) ==
  /\ bookings[b].status # CANCELLED
  /\ bookings'[b].status = CANCELLED
  /\ \A r \in BookingIds :
       ~(/\ bookings[r].status = RESCHEDULE_REQUEST
         /\ bookings'[r].status = RESCHEDULED_ACCEPTED)

C11_CancelResult ==
  \A actor \in Actors, b \in BookingIds :
    /\ bookings[b].status = CONFIRMED
    /\ IsParty(bookings[b], actor)
    => /\ CancelValidate(bookings, actor, b) = "ok"
       /\ CancelRow(bookings, b)[b].status = CANCELLED
       /\ ~ReleaseSlot(slots, bookings[b].timeSlotId)[bookings[b].timeSlotId]
             .isBooked

C11_CancelStep ==
  \A b \in BookingIds :
    bookings[b].status = CONFIRMED /\ CancelStepOn(b) =>
      /\ bookings' = [bookings EXCEPT ![b].status = CANCELLED]
      /\ slots' = [slots EXCEPT ![bookings[b].timeSlotId].isBooked = FALSE]

C12_CancelOnlyFromActive ==
  \A actor \in Actors, b \in BookingIds :
    /\ CancelValidate(bookings, actor, b) = "ok"
         => bookings[b].status \in ActiveStatuses
    /\ bookings[b].status \in {CANCELLED, FINISHED}
         => CancelValidate(bookings, actor, b) # "ok"

\* C13: finishBooking produces a FINISHED booking only from CONFIRMED or
\* RESCHEDULED_ACCEPTED and only for the coach of the booking.
C13_FinishOnlyFromConfirmedOrAccepted ==
  \A actor \in Actors, b \in BookingIds :
    FinishValidate(bookings, now, actor, b) = "ok" =>
      /\ bookings[b].status \in {CONFIRMED, RESCHEDULED_ACCEPTED}
      /\ actor.role = COACH
      /\ bookings[b].coachId = actor.id

C14_FutureFinishFails ==
  \A actor \in Actors, b \in BookingIds :
    bookings[b].bookingDate > now =>
      FinishValidate(bookings, now, actor, b) # "ok"

C14_FinishedHasOccurred ==
  \A b \in BookingIds :
    bookings[b].status = FINISHED => bookings[b].bookingDate <= now

C14_FinishStep ==
  \A b \in BookingIds :
    bookings[b].status # FINISHED /\ bookings'[b].status = FINISHED
      => bookings[b].bookingDate <= now

\* C14: finishBooking on a booking whose bookingDate is later than the
\* current time fails and leaves the status as it is; no booking is
\* FINISHED before its bookingDate has been reached.
C14_NoFinishBeforeDate ==
  /\ [](C14_FutureFinishFails /\ C14_FinishedHasOccurred)
  /\ [][C14_FinishStep]_vars

C14_Witness ==
  /\ \E b \in BookingIds :
       bookings[b].status = FINISHED /\ bookings[b].rescheduleFromId = Null
  /\ \E b \in BookingIds :
       bookings[b].status = CONFIRMED /\ bookings[b].bookingDate > now

\* the preconditions of createBooking as the claim lists them
C15_Preconditions(c, s, d) ==
  /\ s \in DOMAIN slots
  /\ slots[s].coachId = c
  /\ slots[s].status = "ACTIVE"
  /\ DateOnly(d) = DateOnly(slots[s].slotDate)
  /\ DateOnly(d) >= DateOnly(now)
  /\ ~\E i \in BookingIds : Holds(bookings, i, s, DateOnly(d))

C15_FailsUnlessPreconditions ==
  \A c \in Coaches, s \in SlotIdInputs, d \in Times :
    CreateValidate(bookings, slots, now, c, s, d) = "ok"
      <=> C15_Preconditions(c, s, d)

C15_CreateStep ==
  \/ /\ \A b \in BookingIds : bookings'[b].status = CONFIRMED
                                => bookings[b].status = CONFIRMED
     /\ Len(bookings') > Len(bookings)
          => bookings'[Len(bookings')].status # CONFIRMED
     /\ \A s \in DOMAIN slots : slots'[s].isBooked => slots[s].isBooked
  \/ \E a \in Athletes, c \in Coaches, s \in SlotIds, d \in Times :
       /\ C15_Preconditions(c, s, d)
       /\ Len(bookings') = Len(bookings) + 1
       /\ \A b \in BookingIds : bookings'[b] = bookings[b]
       /\ bookings'[Len(bookings')].status = CONFIRMED
       /\ bookings'[Len(bookings')].athleteId = a
       /\ bookings'[Len(bookings')].coachId = c
       /\ bookings'[Len(bookings')].timeSlotId = s
       /\ DateOnly(bookings'[Len(bookings')].bookingDate) = DateOnly(d)
       /\ slots' = [slots EXCEPT ![s].isBooked = TRUE]

\* C15: createBooking fails, changing no booking and no slot, whenever the
\* slot does not exist, belongs to another coach, is not ACTIVE, has
\* another date than the booking day, the day is past, or an active booking
\* holds the (slot, day); only when none of these is the case does it
\* insert a CONFIRMED booking and set the slot's isBooked.
C15_CreatePreconditions ==
  /\ []C15_FailsUnlessPreconditions
  /\ [][C15_CreateStep]_vars

C15_Witness ==
  \E b \in BookingIds :
    /\ bookings[b].status = CONFIRMED
    /\ slots[bookings[b].timeSlotId].isBooked
    /\ CreateValidate(bookings, slots, now, bookings[b].coachId,
                      bookings[b].timeSlotId, bookings[b].bookingDate)
         = "CONFLICT"
    /\ \E s \in SlotIds : DateOnly(slots[s].slotDate) < DateOnly(now)

C16_NotPendingFails ==
  \A actor \in Actors, b \in BookingIds, decision \in Decisions :
    bookings[b].status # RESCHEDULE_REQUEST =>
      RespondValidate(bookings, actor, b, decision) = "BAD_REQUEST"

\* a booking is answered by a step that makes it accepted or rejected
C16_Answered(b) ==
  /\ bookings'[b].status \in {RESCHEDULED_ACCEPTED, RESCHEDULED_CANCELED}
  /\ bookings'[b].status # bookings[b].status

C16_AnswerStep ==
  \A b \in BookingIds :
    /\ C16_Answered(b) => bookings[b].status = RESCHEDULE_REQUEST
    /\ bookings[b].status # RESCHEDULE_REQUEST
         => bookings'[b].status # RESCHEDULE_REQUEST

\* C16: respondToReschedule fails when the target booking is not in
\* status RESCHEDULE_REQUEST; a booking becomes accepted or rejected only
\* from RESCHEDULE_REQUEST and never returns to it, so each proposal is
\* answered at most once.
C16_AnsweredAtMostOnce ==
  /\ []C16_NotPendingFails
  /\ [][C16_AnswerStep]_vars

C16_Witness ==
  /\ \E b \in BookingIds : bookings[b].status = RESCHEDULED_ACCEPTED
  /\ \E b \in BookingIds : bookings[b].status = RESCHEDULED_CANCELED

\* the bookings after actor's requestReschedule(b, s, d) has succeeded
C17_AfterRequest(b, s, d) ==
  Append(bookings,
         RescheduleRow(bookings[b].athleteId, bookings[b].coachId, b, s, d))

\* C17: the party that created a proposal with requestReschedule cannot
\* itself accept or reject it: in every state, for every request that
\* succeeds, the requester's own answer to the new proposal fails.
C17_RequesterCannotAnswer ==
  \A actor \in Actors, b \in BookingIds, s \in SlotIdInputs, d \in Times,
     decision \in {RESCHEDULED_ACCEPTED, RESCHEDULED_CANCELED} :
    /\ Len(bookings) < MaxBookings
    /\ RequestValidate(bookings, slots, actor, b, s, d) = "ok"
    => RespondValidate(C17_AfterRequest(b, s, d), actor,
                       Len(bookings) + 1, decision) # "ok"

\* the requester's (role, id) matches the athlete or the coach of booking b
C18_Matches(actor, b) ==
  \/ actor.role = ATHLETE /\ actor.id = bookings[b].athleteId
  \/ actor.role = COACH /\ actor.id = bookings[b].coachId

\* C18: authorization is uniform: for a requester that is neither the
\* athlete nor the coach of the booking, cancelBooking, finishBooking,
\* requestReschedule and respondToReschedule all fail with Forbidden.
C18_UniformForbidden ==
  \A actor \in Actors, b \in BookingIds :
    ~C18_Matches(actor, b) =>
      /\ CancelValidate(bookings, actor, b) = "FORBIDDEN"
      /\ FinishValidate(bookings, now, actor, b) = "FORBIDDEN"
      /\ \A s \in SlotIdInputs, d \in Times :
           RequestValidate(bookings, slots, actor, b, s, d) = "FORBIDDEN"
      /\ \A decision \in Decisions :
           RespondValidate(bookings, actor, b, decision) = "FORBIDDEN"

C19_ActiveBookingSlotExists ==
  \A i \in BookingIds :
    Active(bookings[i]) => bookings[i].timeSlotId \in DOMAIN slots

C19_BookedSlotKept ==
  \A s \in DOMAIN slots : slots[s].isBooked => s \in DOMAIN slots'

\* C19: a TimeSlot is never hard-deleted once booked: no step, of
\* generateSlots in particular, removes a slot whose isBooked is true, and
\* every booking in an active status references a TimeSlot that exists.
C19_BookedSlotNeverDeleted ==
  /\ []C19_ActiveBookingSlotExists
  /\ [][C19_BookedSlotKept]_vars

\* the ids of the slots of availability k in the table sl
C20_SlotsOf(sl, k) ==
  {s \in DOMAIN sl : <<sl[s].coachId, sl[s].slotDate>> = k}

\* the intervals [start + n*interval, start + (n+1)*interval) that end at
\* or before end
C20_Tiles(start, end) ==
  {<<start + n * intervalTime, start + (n + 1) * intervalTime>> :
     n \in {m \in 0..(MinutesPerDay \div intervalTime) :
              start + (m + 1) * intervalTime <= end}}

\* in sl the slots of k are the tiles of k's window in av, one slot for
\* each tile, all of them ACTIVE and not booked
C20_Tiled(av, sl, k) ==
  /\ {<<sl[s].startTime, sl[s].endTime>> : s \in C20_SlotsOf(sl, k)}
       = C20_Tiles(av[k].startTime, av[k].endTime)
  /\ Cardinality(C20_SlotsOf(sl, k))
       = Cardinality(C20_Tiles(av[k].startTime, av[k].endTime))
  /\ \A s \in C20_SlotsOf(sl, k) :
       sl[s].status = "ACTIVE" /\ ~sl[s].isBooked

\* a step that writes an availability or inserts or deletes slots is a
\* generateSlots(C, D, start, end) that leaves the window [start, end) on
\* the availability k = (C, D)
C20_GenerateStep ==
  availabilities' # availabilities \/ DOMAIN slots' # DOMAIN slots
    => \E k \in DOMAIN availabilities' :
         /\ \A j \in DOMAIN availabilities \ {k} :
              /\ availabilities'[j] = availabilities[j]
              /\ C20_SlotsOf(slots', j) = C20_SlotsOf(slots, j)
         /\ C20_Tiled(availabilities', slots', k)
         /\ C20_SlotsOf(slots, k) \cap DOMAIN slots' = {}

\* C20: after generateSlots(C, D, start, end) the slots of (C, D) are
\* exactly the intervals [start + n*60, start + (n+1)*60) with
\* start + (n+1)*60 <= end: consecutive, without overlap, none beyond end,
\* a trailing partial slot dropped, all ACTIVE and not booked, and every
\* slot that (C, D) had before the call is gone.
C20_GenerateTiles ==
  [][C20_GenerateStep]_vars

\* (C, D) has been regenerated, has two consecutive slots, and its window
\* ends with a partial slot that was dropped
C20_Witness ==
  \E k \in DOMAIN availabilities :
    /\ slotSeq > Cardinality(DOMAIN slots)
    /\ \E s, t \in C20_SlotsOf(slots, k) :
         /\ slots[s].endTime = slots[t].startTime
         /\ slots[t].endTime < availabilities[k].endTime
    /\ C20_Tiled(availabilities, slots, k)

\* the half-open intervals [s, e) and [es, ee) have a point in common
C21_HalfOpenOverlap(s, e, es, ee) == s < ee /\ e > es

\* C21: for every candidate with start < end and every existing slot with
\* start < end the three cases of the conflict test of addNewSlot say the
\* same as candidateStart < existingEnd /\ candidateEnd > existingStart;
\* [10:00, 11:00) against [11:00, 12:00) is no conflict and
\* [10:30, 11:30) against [11:00, 12:00) is one.
C21_ConflictIsHalfOpenOverlap ==
  /\ \A start \in SlotTimes, end \in SlotTimes, s \in DOMAIN slots :
       start < end /\ slots[s].startTime < slots[s].endTime =>
         (Overlaps(start, end, slots[s].startTime, slots[s].endTime)
            <=> C21_HalfOpenOverlap(start, end, slots[s].startTime,
                                    slots[s].endTime))
  /\ ~Overlaps(10 * 60, 11 * 60, 11 * 60, 12 * 60)
  /\ Overlaps(10 * 60 + 30, 11 * 60 + 30, 11 * 60, 12 * 60)

\* a slot with a candidate that ends where it starts, a candidate that
\* starts where it ends, and a candidate that reaches half an hour into it
C21_Witness ==
  \E s \in DOMAIN slots, t \in SlotTimes :
    /\ t < slots[s].startTime
    /\ ~Overlaps(t, slots[s].startTime, slots[s].startTime, slots[s].endTime)
    /\ slots[s].endTime + 30 \in SlotTimes
    /\ ~Overlaps(slots[s].endTime, slots[s].endTime + 30,
                 slots[s].startTime, slots[s].endTime)
    /\ Overlaps(t, slots[s].startTime + 30,
                slots[s].startTime, slots[s].endTime)

\* the place of slot s in the order of creation
C22_Place(s) == CHOOSE i \in 1..Len(SlotIdOrder) : SlotIdOrder[i] = s

\* the slots of (c, d) that the candidate [start, end) conflicts with
C22_Conflicts(c, d, start, end) ==
  {s \in DOMAIN slots :
     /\ slots[s].coachId = c /\ slots[s].slotDate = d
     /\ start < slots[s].endTime /\ end > slots[s].startTime}

\* a request that conflicts is answered with the first conflicting slot
\* and has written nothing: the availability it would create exists
C22_ConflictReported ==
  \A c \in Coaches, d \in Days, start \in SlotTimes, end \in SlotTimes :
    start < end =>
      LET hit == ConflictingSlot(slots, c, d, start, end) IN
      IF C22_Conflicts(c, d, start, end) = {}
      THEN /\ hit = NoSlot
           /\ AddValidate(slots, c, d, start, end) = "ok"
      ELSE /\ AddValidate(slots, c, d, start, end) = "CONFLICT"
           /\ hit \in C22_Conflicts(c, d, start, end)
           /\ \A s \in C22_Conflicts(c, d, start, end) :
                C22_Place(hit) <= C22_Place(s)
           /\ FindOrCreateAvailability(availabilities, c, d, start, end)
                = availabilities

\* a step that inserts a slot inserts one that conflicts with no slot of
\* its coach and date, and changes no other slot
C22_AddStep ==
  DOMAIN slots' # DOMAIN slots =>
    \E n \in DOMAIN slots' \ DOMAIN slots :
      /\ DOMAIN slots' = DOMAIN slots \cup {n}
      /\ \A s \in DOMAIN slots : slots'[s] = slots[s]
      /\ slots'[n].startTime < slots'[n].endTime
      /\ C22_Conflicts(slots'[n].coachId, slots'[n].slotDate,
                       slots'[n].startTime, slots'[n].endTime) = {}

\* C22: addNewSlot inserts the candidate only if it conflicts with no
\* existing slot of the same coach and date; on a conflict it changes no
\* availability and no slot and reports the first conflicting slot in the
\* order of the existing slots.
C22_AddOnlyWithoutConflict ==
  /\ []C22_ConflictReported
  /\ [][C22_AddStep]_vars

\* a candidate conflicts with two slots, and two slots touch
C22_Witness ==
  \E c \in Coaches, d \in Days, start \in SlotTimes, end \in SlotTimes :
    /\ Cardinality(C22_Conflicts(c, d, start, end)) >= 2
    /\ AddValidate(slots, c, d, start, end) = "CONFLICT"
    /\ \E s, t \in C22_Conflicts(c, d, start, end) :
         slots[s].endTime = slots[t].startTime /\ C22_Place(s) > C22_Place(t)

C23_ToggleRefused ==
  \A c \in Coaches, s \in DOMAIN slots :
    ToggleValidate(slots, c, s) = "ok"
      <=> /\ slots[s].coachId = c
          /\ ~(slots[s].status = "ACTIVE" /\ slots[s].isBooked)

C23_StatusStep ==
  \A s \in DOMAIN slots :
    /\ s \in DOMAIN slots'
    /\ slots[s].status = "ACTIVE" /\ slots[s].isBooked
         => slots'[s].status = "ACTIVE"
    /\ slots'[s].status # slots[s].status
         => /\ slots'[s] = [slots[s] EXCEPT !.status = slots'[s].status]
            /\ \A t \in DOMAIN slots \ {s} : slots'[t] = slots[t]

\* C23: toggleSlotStatus succeeds only for the coach of the slot's
\* availability and only when the slot is not both ACTIVE and booked;
\* otherwise it fails and the slot is unchanged, so a slot with isBooked
\* true never goes from ACTIVE to INACTIVE.
C23_BookedSlotStaysActive ==
  /\ []C23_ToggleRefused
  /\ [][C23_StatusStep]_vars

\* a booked ACTIVE slot beside a slot that has been switched
C23_Witness ==
  /\ \E s \in DOMAIN slots : slots[s].status = "ACTIVE" /\ slots[s].isBooked
  /\ \E t \in DOMAIN slots : slots[t].status # InitSlots[t].status

\* C24: two calls of toggleSlotStatus in a row on an unbooked slot, by its
\* coach, both succeed and return the slot to its status; neither call
\* changes isBooked or another slot.
C24_ToggleTwiceRestores ==
  \A c \in Coaches, s \in DOMAIN slots :
    ~slots[s].isBooked /\ slots[s].coachId = c =>
      LET once == ToggleRow(slots, s)
          twice == ToggleRow(once, s)
      IN  /\ ToggleValidate(slots, c, s) = "ok"
          /\ ToggleValidate(once, c, s) = "ok"
          /\ twice[s].status = slots[s].status
          /\ once[s].isBooked = slots[s].isBooked
          /\ twice[s].isBooked = slots[s].isBooked
          /\ \A t \in DOMAIN slots \ {s} :
               once[t] = slots[t] /\ twice[t] = slots[t]
          /\ DOMAIN once = DOMAIN slots /\ DOMAIN twice = DOMAIN slots

\* an unbooked slot has been switched once, and the next call switches it
\* back
C24_Witness ==
  \E s \in DOMAIN slots :
    /\ ~slots[s].isBooked
    /\ slots[s].status # InitSlots[s].status
    /\ ToggleValidate(slots, slots[s].coachId, s) = "ok"
    /\ ToggleRow(slots, s)[s].status = InitSlots[s].status

\* C25: every TimeSlot has start < end, and its start and end lie within
\* the window of its CoachAvailability.
C25_SlotWithinWindow ==
  \A s \in DOMAIN slots :
    LET k == <<slots[s].coachId, slots[s].slotDate>> IN
    /\ slots[s].startTime < slots[s].endTime
    /\ k \in DOMAIN availabilities
    /\ availabilities[k].startTime <= slots[s].startTime
    /\ slots[s].endTime <= availabilities[k].endTime

\* C26: a failure of the Notifier during createBooking does not roll the
\* transaction back: when the checks have passed and the notification
\* fails, the CONFIRMED booking and the slot's isBooked are committed and
\* the call succeeds.
C26_NotifierFailureKeepsBooking ==
  \A a \in Athletes, c \in Coaches, s \in SlotIdInputs, d \in Times :
    CreateValidate(bookings, slots, now, c, s, d) = "ok" =>
      LET tx == CreateTx(bookings, slots, a, c, s, d, "failed") IN
      /\ tx.result = "ok"
      /\ Len(tx.bookings) = Len(bookings) + 1
      /\ tx.bookings[Len(tx.bookings)].status = CONFIRMED
      /\ tx.slots[s].isBooked

\* C27: cancelBooking and finishBooking, or two cancelBooking, that run
\* concurrently on one booking: at most one of them succeeds.
C27_AtMostOneSucceeds ==
  \A p \in Procs, q \in Procs :
    /\ p # q
    /\ proc[p].pc = "done" /\ proc[q].pc = "done"
    /\ proc[p].booking = proc[q].booking
    => ~(proc[p].result = "ok" /\ proc[q].result = "ok")

\* an availability whose window ends at or before its start has no slot
C28_InvertedWindowEmpty ==
  \A k \in DOMAIN availabilities :
    availabilities[k].endTime <= availabilities[k].startTime
      => C20_SlotsOf(slots, k) = {}

\* a window that ends at or before its start yields no slot
C28_NoSchedules ==
  \A start \in WindowStarts, end \in WindowEnds :
    end <= start => Schedules(start, end) = << >>

\* a step that leaves an inverted window on availability k has deleted
\* every slot of k, created none, and kept the rest
C28_InvertedStep ==
  \A k \in DOMAIN availabilities' :
    /\ availabilities'[k].endTime <= availabilities'[k].startTime
    /\ \/ k \notin DOMAIN availabilities
       \/ availabilities[k] # availabilities'[k]
       \/ C20_SlotsOf(slots, k) # {}
    => /\ DOMAIN slots' = DOMAIN slots \ C20_SlotsOf(slots, k)
       /\ slotSeq' = slotSeq
       /\ \A s \in DOMAIN slots' : slots'[s] = slots[s]

\* C28: generateSlots with windowEnd <= windowStart raises no error: it
\* upserts the availability with that window, deletes every slot of the
\* coach and date, and creates none.
C28_InvertedWindowAccepted ==
  /\ [](C28_InvertedWindowEmpty /\ C28_NoSchedules)
  /\ [][C28_InvertedStep]_vars

\* an availability with an inverted window, after slots had been created
C28_Witness ==
  /\ slotSeq > 0
  /\ slots = NoRows
  /\ \E k \in DOMAIN availabilities :
       availabilities[k].endTime < availabilities[k].startTime

\* C29: every booking in status CONFIRMED, RESCHEDULE_REQUEST or
\* RESCHEDULED_ACCEPTED references a TimeSlot whose status is ACTIVE.
C29_ActiveBookingOnActiveSlot ==
  \A i \in BookingIds :
    Active(bookings[i]) =>
      /\ bookings[i].timeSlotId \in DOMAIN slots
      /\ slots[bookings[i].timeSlotId].status = "ACTIVE"

C30_AcceptStep ==
  \A b \in BookingIds :
    /\ bookings[b].status # RESCHEDULED_ACCEPTED
    /\ bookings'[b].status = RESCHEDULED_ACCEPTED
    => Active(bookings[Original(b)])

C30_TerminalOriginalKept ==
  \A b \in BookingIds :
    /\ bookings[b].status = RESCHEDULE_REQUEST
    /\ bookings'[b].status # RESCHEDULE_REQUEST
    /\ bookings[Original(b)].status \in {CANCELLED, FINISHED}
    => bookings'[Original(b)].status = bookings[Original(b)].status

\* C30: a proposal becomes RESCHEDULED_ACCEPTED only while its original
\* booking is active; when the original is cancelled or finished, an
\* answer to the proposal does not overwrite the original's status.
C30_AcceptOnlyActiveOriginal ==
  [][C30_AcceptStep /\ C30_TerminalOriginalKept]_vars

====
